---- MODULE Spec2Model ----
(***************************************************************************)
(* Model of the 8-layer scraping pipeline of src/src/lib/scrapeEngine.ts.  *)
(*                                                                         *)
(* scrapeUrl is an async function: it runs synchronously between its       *)
(* awaits.  Every action below is one such synchronous stretch, from one   *)
(* suspension point (await fetch, await res.json()/res.text()) to the next,*)
(* or to the return/throw that ends the run.  The calls of onLayerUpdate   *)
(* made during a stretch are appended, in order, to `calls`.               *)
(***************************************************************************)
EXTENDS Integers, Sequences, FiniteSets, TLC

(***************************************************************************)
(* Bounds of the model.                                                    *)
(***************************************************************************)
\* number of times the caller invokes scrapeUrl one after the other
MaxRuns == 2
\* longest string over Chars given to the string functions
MaxTextLen == 5

(***************************************************************************)
(* Program constants.                                                      *)
(***************************************************************************)
NumLayers == 8
MinLenProxy == 200
MinLenCache == 300
MinVisibleText == 150
MinJinaLen == 100
WordsPerMinute == 200

LayerNames ==
  << "AllOrigins", "ThingProxy", "CodeTabs", "Jina Reader",
     "Google Cache", "Wayback Machine", "12ft.io", "HTMLRender.dev" >>

\* the layer whose candidate is pre-rendered text, checked by isJinaError
JinaLayer == 4
\* the layer that performs two fetches (availability query, then snapshot)
WaybackLayer == 6
HtmlLayers == (1..NumLayers) \ {JinaLayer}

(***************************************************************************)
(* Inputs.                                                                 *)
(***************************************************************************)
\* url strings: well formed, or holding a lone surrogate, on which
\* encodeURIComponent throws URIError
Urls == {"https://a.example", "malformed"}

\* A body delivered as HTML, by what the validators and the normaliser read
\* of it: its raw length, the length of its visible text after the
\* script/style/noscript/meta/link elements are removed, whether its markup
\* matches one of spaPatterns, whether turndown converts it without
\* throwing, and the number of words of the resulting markdown body.
\* len = 0 is the empty or missing body (data?.contents falsy, html falsy).
HtmlLens == {0, MinLenProxy, MinLenProxy + 1, MinLenCache, MinLenCache + 1}
VisibleLens == {MinVisibleText - 1, MinVisibleText}
BodyWordCounts == {0, 1, 2}
HtmlPayloads ==
  { p \in [len : HtmlLens, visible : VisibleLens, emptyRoot : BOOLEAN,
           convertible : BOOLEAN, words : BodyWordCounts] :
      /\ p.visible <= p.len \/ p.len = 0
      /\ p.len = 0 => (p.visible = MinVisibleText - 1 /\ ~p.emptyRoot
                         /\ p.convertible /\ p.words = 0) }

\* the phrases isJinaError looks for in the lower-cased text
FailureMarkers ==
  { "warning: target url returned error", "captcha", "403: forbidden",
    "access denied" }

\* what a text may contain, as written in the text: nothing of interest,
\* a failure marker in some letter case, or a phrase that is no marker
Phrases ==
  { "none", "Warning: Target URL returned error", "captcha", "CAPTCHA",
    "403: Forbidden", "Access Denied", "403 Forbidden" }

\* A body delivered as text by the rendering service: its length, the
\* phrase it contains, the length left after the leading
\* "# title / ====" header is stripped and the rest trimmed, and its number
\* of words.
JinaLens == {0, MinJinaLen - 1, MinJinaLen, MinJinaLen + 1}
JinaPayloads ==
  { t \in [len : JinaLens, phrase : Phrases,
           stripped : {MinJinaLen - 1, MinJinaLen}, words : BodyWordCounts] :
      /\ t.stripped <= t.len \/ t.len = 0
      /\ t.len = 0 => (t.phrase = "none" /\ t.stripped = MinJinaLen - 1)
      /\ t.len = 0 <=> t.words = 0 }

\* how a fetch can fail: rejected promise, AbortSignal.timeout, !res.ok
FetchFailures == {"networkError", "timeout", "badStatus"}
\* how reading the body can fail: res.json() throws on an unparsable body,
\* or the timeout signal aborts the read
BodyFailures == {"unparsableBody", "timeout"}

\* Strings are sequences of characters.  A character is written as a
\* one-character string; the header and the converted bodies also use
\* longer strings, each standing for a run of non-whitespace characters.
Whitespace == {" ", "\n", "\t"}
Chars == {"a", " ", "\n"}

\* n words separated by single spaces
Words(n) == [ i \in 1..(IF n = 0 THEN 0 ELSE 2 * n - 1) |->
                IF i % 2 = 1 THEN "w" ELSE " " ]

\* the strings over Chars of length at most n
StringsUpTo(n) == UNION { [1..m -> Chars] : m \in 0..n }

\* word counts on both sides of whole minutes of reading
LongWordCounts == {199, 200, 201, 400, 401}

\* the strings given to makeResult and to the blank-line collapse: the
\* short ones, long runs of words, and a provenance header with a body
TextInputs ==
  StringsUpTo(MaxTextLen)
    \cup { Words(n) : n \in LongWordCounts }
    \cup { << "---", "\n", "source:", " ", "https://a.example", "\n",
              "scraped:", " ", "<ISO-8601 timestamp>", "\n",
              "layers_tried:", " ", "1", "\n", "---", "\n", "\n" >> \o Words(n) :
            n \in {0, 2} }

NoResult == [markdown |-> "none"]

\* no body was read by the last stretch of code
NoPayload == [kind |-> "none"]

VARIABLES
  pc,        \* "idle", "fetch", "body", "returned", "exhausted", "uriError"
  url,       \* the url argument of the current run
  cur,       \* 1-based number of the layer being tried (0 before the first)
  hop,       \* 1, or 2 while layer 6 fetches the snapshot
  layers,    \* the local array `layers`; << >> before it is created
  calls,     \* the arguments of the calls of onLayerUpdate, in order
  result,    \* the ScrapeResult returned, or NoResult
  event,     \* outcome of the last stretch of code that ran
  firstAccepted, \* first layer whose candidate the validators accepted, or 0
  runs,      \* number of invocations of scrapeUrl so far
  payload,   \* the body read by the last stretch of code, and by which layer
  text,      \* a string given to the string functions
  made,      \* makeResult(text), once computed
  collapsed, \* the blank-line collapse of text, once computed
  recollapsed, \* the blank-line collapse of collapsed, once computed
  applied,   \* the string functions applied to text so far
  mem,       \* the heap: LayerStatus objects and arrays of references to them
  layersRef, \* the array that the local `layers` is bound to, or NoRef
  delivered, \* the arrays handed to onLayerUpdate, in order
  conc,      \* the invocations of scrapeUrl that run side by side
  store,     \* the localStorage item "site-unraveler-history"
  lastAdded, \* the arguments of the last call of addHistory, or NoAdd
  variant,   \* a run of the 5-layer scrapeUrl
  ui         \* the state of the page component Index and its scrapeUrl calls

pipelineVars ==
  << pc, url, cur, hop, layers, calls, result, event, firstAccepted, runs,
     payload >>

\* the memory behind `layers` and behind the arguments of the callback
heapVars == << mem, layersRef, delivered >>

stringVars == << text, made, collapsed, recollapsed, applied >>

\* the variables the pipeline never touches
\* the history store of the UI shell
historyVars == << store, lastAdded >>

\* the variables of the UI shell
shellVars == << historyVars, ui >>

\* the variables outside scrapeEngine.ts
restVars == << shellVars, variant >>

otherVars == << stringVars, conc, restVars >>

vars == << pipelineVars, heapVars, otherVars >>

(***************************************************************************)
(* Pure functions of the source.                                           *)
(***************************************************************************)
InitialLayers ==
  [ i \in 1..NumLayers |->
      [layer |-> i, name |-> LayerNames[i], status |-> "pending"] ]

\* layers[index] = { ...layers[index], status }   (index is 0-based)
updateLayer(ls, index, status) ==
  [ ls EXCEPT ![index + 1] = [ @ EXCEPT !.status = status ] ]

(***************************************************************************)
(* Objects and arrays.  An address is << owner, n >>: the n-th allocation  *)
(* made by the invocation `owner`.  mem.obj maps the address of a          *)
(* LayerStatus object to its fields, mem.arr maps the address of an array  *)
(* to its elements, which are addresses of objects.                        *)
(***************************************************************************)
NoRef == << "none", 0 >>

Restrict(f, S) == [ a \in S |-> f[a] ]

\* f with v at the address a, whether a was in use or not
Store(f, a, v) == (a :> v) @@ f

EmptyHeap == [obj |-> Restrict(<< >>, {}), arr |-> Restrict(<< >>, {})]

\* the next address that the invocation r allocates in f
NextAddr(f, r) == << r, 1 + Cardinality({ a \in DOMAIN f : a[1] = r }) >>

\* as allocLayers, but `layers` is one array of the module, created once
\* and used by every invocation
allocLayers_moduleLevel(h, r) ==
  IF DOMAIN h.arr # {}
    THEN [heap |-> h, ref |-> << "module", 1 >>]
    ELSE [heap |-> [obj |-> [ a \in { << "module", i >> : i \in 1..NumLayers } |->
                               InitialLayers[a[2]] ],
                    arr |-> Store(h.arr, << "module", 1 >>,
                                  [ i \in 1..NumLayers |-> << "module", i >> ])],
          ref |-> << "module", 1 >>]

\* the array literal of `const layers`: eight new objects in a new array
allocLayers(h, r) ==
  LET base == NextAddr(h.obj, r)[2] - 1
      entries == [ i \in 1..NumLayers |-> << r, base + i >> ]
      objs == [ a \in { entries[i] : i \in 1..NumLayers } |->
                  InitialLayers[a[2] - base] ] @@ h.obj
      ref == NextAddr(h.arr, r)
  IN  [heap |-> [obj |-> objs, arr |-> Store(h.arr, ref, entries)],
       ref |-> ref]

\* as updateLayerOnHeap, but the entry is changed where it is:
\* layers[index].status = status
updateLayerOnHeap_inPlace(h, r, ref, index, status) ==
  LET entry == h.arr[ref][index + 1]
      objs == Store(h.obj, entry, [ h.obj[entry] EXCEPT !.status = status ])
      copy == NextAddr(h.arr, r)
  IN  [heap |-> [obj |-> objs, arr |-> Store(h.arr, copy, h.arr[ref])],
       snapshot |-> copy]

\* updateLayer on the array at ref: a new object { ...layers[index], status }
\* is stored at layers[index], and a new array [...layers] is handed to
\* the callback
updateLayerOnHeap(h, r, ref, index, status) ==
  LET entry == NextAddr(h.obj, r)
      objs == Store(h.obj, entry,
                    [ h.obj[h.arr[ref][index + 1]] EXCEPT !.status = status ])
      stored == [ h.arr[ref] EXCEPT ![index + 1] = entry ]
      written == Store(h.arr, ref, stored)
      copy == NextAddr(written, r)
  IN  [heap |-> [obj |-> objs, arr |-> Store(written, copy, stored)],
       snapshot |-> copy]

RECURSIVE updateLayers(_, _, _, _)
\* consecutive calls of updateLayer, each << index, status >>: the heap
\* after them and the arrays handed to the callback
updateLayers(h, r, ref, updates) ==
  IF updates = << >>
    THEN [heap |-> h, delivered |-> << >>]
    ELSE LET first == updateLayerOnHeap(h, r, ref, updates[1][1], updates[1][2])
             rest == updateLayers(first.heap, r, ref, Tail(updates))
         IN  [heap |-> rest.heap,
              delivered |-> << first.snapshot >> \o rest.delivered]

\* the invocation r is over and its caller lets go of what it was handed:
\* the arrays of r go, and the objects of r that no other array holds
release(h, r) ==
  LET arrs == { a \in DOMAIN h.arr : a[1] # r }
      held == UNION { { h.arr[a][i] : i \in 1..Len(h.arr[a]) } : a \in arrs }
      objs == { o \in DOMAIN h.obj : o[1] # r \/ o \in held }
  IN  [obj |-> Restrict(h.obj, objs), arr |-> Restrict(h.arr, arrs)]

\* what a reader of the array at address a sees
Deref(h, a) == [ i \in 1..Len(h.arr[a]) |-> h.obj[h.arr[a][i]] ]

\* as isSpaShell, but without the test of spaPatterns
isSpaShell_textOnly(p) == p.visible < MinVisibleText

isSpaShell(p) ==
  \/ p.visible < MinVisibleText
  \/ p.emptyRoot

\* String.prototype.toLowerCase on the phrases of the model
toLowerCase(s) ==
  CASE s = "Warning: Target URL returned error" -> "warning: target url returned error"
    [] s = "CAPTCHA" -> "captcha"
    [] s = "403: Forbidden" -> "403: forbidden"
    [] s = "Access Denied" -> "access denied"
    [] s = "403 Forbidden" -> "403 forbidden"
    [] OTHER -> s

\* as isJinaError, but the markers are looked for in the text as written
isJinaError_caseSensitive(t) ==
  \/ t.len = 0
  \/ t.len < MinJinaLen
  \/ t.phrase \in FailureMarkers
  \/ t.stripped < MinJinaLen

isJinaError(t) ==
  \/ t.len = 0
  \/ t.len < MinJinaLen
  \/ toLowerCase(t.phrase) \in FailureMarkers
  \/ t.stripped < MinJinaLen

MinLength(k) == IF k \in {1, 2, 3} THEN MinLenProxy ELSE MinLenCache

\* as acceptsHtml, but with >= in the length test
acceptsHtml_atLeast(k, p) ==
  /\ p.len # 0
  /\ p.len >= MinLength(k)
  /\ ~isSpaShell(p)

\* the acceptance test of an HTML layer:
\*   contents && contents.length > N && !isSpaShell(contents)
acceptsHtml(k, p) ==
  /\ p.len # 0
  /\ p.len > MinLength(k)
  /\ ~isSpaShell(p)

Newlines(n) == [ i \in 1..n |-> "\n" ]

\* as flushNewlines, but for the pattern \n{3} without the open upper
\* bound: every three newlines of a run become two
flushNewlines_everyThree(run) == Newlines(2 * (run \div 3) + (run % 3))

\* what replace(/\n{3,}/g, "\n\n") leaves of a maximal run of newlines
flushNewlines(run) == IF run >= 3 THEN Newlines(2) ELSE Newlines(run)

\* markdown.replace(/\n{3,}/g, "\n\n"), scanning s from position i with
\* `run` newlines read and not yet written
RECURSIVE CollapseFrom(_, _, _, _)
CollapseFrom(s, i, run, acc) ==
  IF i > Len(s)
    THEN acc \o flushNewlines(run)
    ELSE IF s[i] = "\n"
           THEN CollapseFrom(s, i + 1, run + 1, acc)
           ELSE CollapseFrom(s, i + 1, 0, Append(acc \o flushNewlines(run), s[i]))

Collapse(s) == CollapseFrom(s, 1, 0, << >>)

\* String.prototype.trim
trim(s) ==
  LET kept == { i \in 1..Len(s) : s[i] \notin Whitespace }
  IN  IF kept = {} THEN << >>
      ELSE LET first == CHOOSE i \in kept : \A j \in kept : i <= j
               last == CHOOSE i \in kept : \A j \in kept : j <= i
           IN  SubSeq(s, first, last)

\* the markdown turndown makes of an HTML body: its words
turndown(p) == Words(p.words)

\* `---\nsource: ${sourceUrl}\nscraped: ${new Date().toISOString()}\n
\*  layers_tried: ${layersTriedCount}\n---\n\n`
Header(sourceUrl, layersTriedCount) ==
  << "---", "\n",
     "source:", " ", sourceUrl, "\n",
     "scraped:", " ", "<ISO-8601 timestamp>", "\n",
     "layers_tried:", " ", ToString(layersTriedCount), "\n",
     "---", "\n", "\n" >>

\* as cleanHtmlToMarkdown, but every block passes the index of layer 1
cleanHtmlToMarkdown_fixedIndex(p, sourceUrl, layersTriedCount) ==
  Header(sourceUrl, 1) \o trim(Collapse(turndown(p)))

\* header + markdown
cleanHtmlToMarkdown(p, sourceUrl, layersTriedCount) ==
  Header(sourceUrl, layersTriedCount) \o trim(Collapse(turndown(p)))

\* header + text.trim()
buildJinaMarkdown(t, sourceUrl, layersTriedCount) ==
  Header(sourceUrl, layersTriedCount) \o trim(Words(t.words))

Front(seq) == SubSeq(seq, 1, Len(seq) - 1)

\* markdown.split(/\s+/): the pieces between the runs of whitespace, the
\* empty piece before a leading run and after a trailing run included.
\* The string is cut in two halves: the last piece of the left half and
\* the first piece of the right half are one piece, unless the cut falls
\* inside a run of whitespace, where both are empty and neither is a piece.
RECURSIVE split(_)
split(s) ==
  IF Len(s) = 0
    THEN << << >> >>
    ELSE IF Len(s) = 1
           THEN IF s[1] \in Whitespace THEN << << >>, << >> >> ELSE << s >>
           ELSE LET m == Len(s) \div 2
                    left == split(SubSeq(s, 1, m))
                    right == split(SubSeq(s, m + 1, Len(s)))
                IN  IF s[m] \in Whitespace /\ s[m + 1] \in Whitespace
                      THEN Front(left) \o Tail(right)
                      ELSE Front(left)
                             \o << left[Len(left)] \o Head(right) >>
                             \o Tail(right)

NonEmpty(piece) == piece # << >>

\* as filterBoolean, but the empty pieces are kept
filterBoolean_keepAll(pieces) == pieces

\* .filter(Boolean) on an array of strings: the empty strings are dropped
filterBoolean(pieces) == SelectSeq(pieces, NonEmpty)

\* as CeilDiv, but rounding down
CeilDiv_floor(a, b) == a \div b

\* Math.ceil(a / b)
CeilDiv(a, b) == (a + b - 1) \div b

makeResult(markdown) ==
  LET wordCount == Len(filterBoolean(split(markdown)))
  IN  [markdown |-> markdown,
       layersTriedCount |-> 0,
       wordCount |-> wordCount,
       readTime |-> CeilDiv(wordCount, WordsPerMinute)]

(***************************************************************************)
(* The tail of every layer block: updateLayer(k-1, "failed"), then either  *)
(* the next block's updateLayer(k, "trying") and its fetch, or the throw.  *)
(***************************************************************************)
\* as afterFailure, but the block ends without updateLayer(k-1, "failed")
afterFailure_skipFailed(ls, k) ==
  IF k < NumLayers THEN << updateLayer(ls, k, "trying") >> ELSE << ls >>

\* the calls of onLayerUpdate made by that tail, in order
afterFailure(ls, k) ==
  LET failed == updateLayer(ls, k - 1, "failed")
  IN  IF k < NumLayers
        THEN << failed, updateLayer(failed, k, "trying") >>
        ELSE << failed >>

\* the calls of updateLayer made by that tail, each << index, status >>
failureUpdates(k) ==
  IF k < NumLayers
    THEN << << k - 1, "failed" >>, << k, "trying" >> >>
    ELSE << << k - 1, "failed" >> >>

\* the invocation of scrapeUrl that Spec follows
Main == "A"

FailLayer(ls, cs, h, ds, kind) ==
  LET emitted == afterFailure(ls, cur)
  IN  /\ layers' = emitted[Len(emitted)]
      /\ calls' = cs \o emitted
      /\ \E stored \in { updateLayers(h, Main, layersRef, failureUpdates(cur)) } :
           /\ mem' = stored.heap
           /\ delivered' = ds \o stored.delivered
      /\ UNCHANGED layersRef
      /\ event' = kind
      /\ hop' = 1
      /\ IF cur < NumLayers
           THEN cur' = cur + 1 /\ pc' = "fetch"
           ELSE cur' = cur /\ pc' = "exhausted"
      /\ UNCHANGED << url, result, runs >>

(***************************************************************************)
(* Actions.                                                                *)
(***************************************************************************)
PipelineInit ==
  /\ pc = "idle"
  /\ url = "none"
  /\ cur = 0
  /\ hop = 1
  /\ layers = << >>
  /\ calls = << >>
  /\ result = NoResult
  /\ event = "none"
  /\ firstAccepted = 0
  /\ runs = 0
  /\ payload = NoPayload
  /\ mem = EmptyHeap
  /\ layersRef = NoRef
  /\ delivered = << >>

\* no string function was applied
StringsIdle ==
  /\ made = NoResult
  /\ collapsed = << >>
  /\ recollapsed = << >>
  /\ applied = {}

\* no invocation runs beside the one that Spec follows
ConcIdle == conc = << >>

\* localStorage.getItem(STORAGE_KEY) on a key that was never set
NoItem == [kind |-> "null"]

NoAdd == [url |-> "none"]

\* the history was never written
HistoryIdle ==
  /\ store = NoItem
  /\ lastAdded = NoAdd

\* a url as the page handles it: whether /^https?:\/\//i matches it, and
\* what follows the scheme; NoUrl is the empty string
NoUrl == [scheme |-> "", rest |-> ""]

\* no scrapeUrl call ended in the last step
NotFinished == [kind |-> "none"]

\* the page as mounted: useState defaults
UiIdle ==
  ui = [appState |-> "idle", url |-> NoUrl, markdown |-> << >>,
        wordCount |-> 0, readTime |-> 0, errorMsg |-> "",
        layersOf |-> 0, markdownOf |-> 0, runs |-> << >>,
        finished |-> NotFinished]

\* the UI shell was not used
ShellIdle == HistoryIdle /\ UiIdle

\* the 5-layer scrapeUrl was not called
VariantIdle ==
  variant = [pc |-> "idle", url |-> "none", cur |-> 0, layers |-> << >>,
             calls |-> << >>, result |-> NoResult, event |-> "none"]

RestIdle == ShellIdle /\ VariantIdle

Init ==
  /\ PipelineInit
  /\ text = << >>
  /\ StringsIdle
  /\ ConcIdle
  /\ RestIdle

\* scrapeUrl is called: encodeURIComponent(url), the layers array,
\* updateLayer(0, "trying") and the first fetch
Start ==
  /\ pc = "idle"
  /\ runs < MaxRuns
  /\ \E u \in Urls :
       /\ url' = u
       /\ runs' = runs + 1
       /\ payload' = NoPayload
       /\ IF u = "malformed"
            THEN /\ pc' = "uriError"
                 /\ event' = "URIError"
                 /\ UNCHANGED << cur, hop, layers, calls, result, firstAccepted >>
                 /\ UNCHANGED heapVars
            ELSE /\ pc' = "fetch"
                 /\ event' = "start"
                 /\ cur' = 1
                 /\ hop' = 1
                 /\ layers' = updateLayer(InitialLayers, 0, "trying")
                 /\ calls' = << updateLayer(InitialLayers, 0, "trying") >>
                 /\ LET created == allocLayers(mem, Main)
                        stored == updateLayers(created.heap, Main, created.ref,
                                               << << 0, "trying" >> >>)
                    IN  /\ mem' = stored.heap
                        /\ layersRef' = created.ref
                        /\ delivered' = stored.delivered
                 /\ UNCHANGED << result, firstAccepted >>
  /\ UNCHANGED otherVars

\* the awaited fetch rejects, is aborted by its timeout, or has !res.ok
FetchFails ==
  /\ pc = "fetch"
  /\ \E kind \in FetchFailures : FailLayer(layers, calls, mem, delivered, kind)
  /\ payload' = NoPayload
  /\ UNCHANGED << firstAccepted, otherVars >>

\* the awaited fetch resolves with res.ok: the body is read next
FetchOk ==
  /\ pc = "fetch"
  /\ pc' = "body"
  /\ event' = "fetchOk"
  /\ payload' = NoPayload
  /\ UNCHANGED << url, cur, hop, layers, calls, result, firstAccepted, runs >>
  /\ UNCHANGED << heapVars, otherVars >>

\* await res.json() / res.text() throws
BodyFails ==
  /\ pc = "body"
  /\ \E kind \in BodyFailures : FailLayer(layers, calls, mem, delivered, kind)
  /\ payload' = NoPayload
  /\ UNCHANGED << firstAccepted, otherVars >>

\* layer 6, first hop, the ways it ends after the availability answer was
\* parsed: no snapshot url in it, or a snapshot url that
\* encodeURIComponent throws on (inside the try of the block)
SnapshotFailures == {"noSnapshot", "badSnapshotUrl"}

\* as NoSnapshot, but the proxy fetch is made with the missing url
NoSnapshot_fetchesAnyway ==
  /\ pc = "body"
  /\ cur = WaybackLayer
  /\ hop = 1
  /\ hop' = 2
  /\ pc' = "fetch"
  /\ event' \in SnapshotFailures
  /\ payload' = NoPayload
  /\ UNCHANGED << url, cur, layers, calls, result, firstAccepted, runs >>
  /\ UNCHANGED << heapVars, otherVars >>

\* layer 6, first hop: the availability answer yields no usable snapshot
\* url and the block falls through to updateLayer(5, "failed")
NoSnapshot ==
  /\ pc = "body"
  /\ cur = WaybackLayer
  /\ hop = 1
  /\ \E kind \in SnapshotFailures : FailLayer(layers, calls, mem, delivered, kind)
  /\ payload' = NoPayload
  /\ UNCHANGED << firstAccepted, otherVars >>

\* layer 6, first hop: the availability answer names a snapshot url,
\* which is fetched through the proxy
SnapshotFound ==
  /\ pc = "body"
  /\ cur = WaybackLayer
  /\ hop = 1
  /\ hop' = 2
  /\ pc' = "fetch"
  /\ event' = "snapshotFound"
  /\ payload' = NoPayload
  /\ UNCHANGED << url, cur, layers, calls, result, firstAccepted, runs >>
  /\ UNCHANGED << heapVars, otherVars >>

\* the candidate was accepted: updateLayer(k-1, "success") inside the try,
\* then the conversion; a throw of the conversion is swallowed by the
\* catch of the layer block, which goes on to updateLayer(k-1, "failed")
Accept(markdown, converts) ==
  LET succeeded == updateLayer(layers, cur - 1, "success")
  IN  /\ firstAccepted' = IF firstAccepted = 0 THEN cur ELSE firstAccepted
      /\ \E stored \in { updateLayers(mem, Main, layersRef,
                                       << << cur - 1, "success" >> >>) } :
           IF converts
             THEN /\ layers' = succeeded
                  /\ calls' = Append(calls, succeeded)
                  /\ mem' = stored.heap
                  /\ delivered' = delivered \o stored.delivered
                  /\ result' = makeResult(markdown)
                  /\ pc' = "returned"
                  /\ event' = "accepted"
                  /\ UNCHANGED << url, cur, hop, runs, layersRef >>
             ELSE FailLayer(succeeded, Append(calls, succeeded), stored.heap,
                            delivered \o stored.delivered, "conversionError")

\* an HTML layer read its body: validators, then the normaliser
HtmlBody ==
  /\ pc = "body"
  /\ cur \in HtmlLayers
  /\ cur = WaybackLayer => hop = 2
  /\ \E p \in HtmlPayloads :
       /\ payload' = [kind |-> "html", layer |-> cur, body |-> p]
       /\ IF acceptsHtml(cur, p)
            THEN Accept(cleanHtmlToMarkdown(p, url, cur), p.convertible)
            ELSE /\ FailLayer(layers, calls, mem, delivered,
                              IF p.len = 0 THEN "emptyBody" ELSE "rejected")
                 /\ UNCHANGED firstAccepted
  /\ UNCHANGED otherVars

\* layer 4 read its text: bot-wall detector, then the header is prepended
JinaBody ==
  /\ pc = "body"
  /\ cur = JinaLayer
  /\ \E t \in JinaPayloads :
       /\ payload' = [kind |-> "text", layer |-> cur, body |-> t]
       /\ IF ~isJinaError(t)
            THEN Accept(buildJinaMarkdown(t, url, cur), TRUE)
            ELSE /\ FailLayer(layers, calls, mem, delivered,
                              IF t.len = 0 THEN "emptyBody" ELSE "rejected")
                 /\ UNCHANGED firstAccepted
  /\ UNCHANGED otherVars

\* the run is over and the caller is free to invoke scrapeUrl again:
\* every invocation has its own layers array
Reinvoke ==
  /\ pc \in {"returned", "exhausted", "uriError"}
  /\ runs < MaxRuns
  /\ pc' = "idle"
  /\ url' = "none"
  /\ cur' = 0
  /\ hop' = 1
  /\ layers' = << >>
  /\ calls' = << >>
  /\ result' = NoResult
  /\ event' = "none"
  /\ firstAccepted' = 0
  /\ payload' = NoPayload
  /\ mem' = release(mem, Main)
  /\ layersRef' = NoRef
  /\ delivered' = << >>
  /\ UNCHANGED << runs, otherVars >>

Next ==
  \/ Start
  \/ FetchFails
  \/ FetchOk
  \/ BodyFails
  \/ NoSnapshot
  \/ SnapshotFound
  \/ HtmlBody
  \/ JinaBody
  \/ Reinvoke

Spec == Init /\ [][Next]_vars

\* the stretches of code that resume the run after an await: every fetch
\* carries its own AbortSignal.timeout, so each awaited network operation
\* resolves, rejects or is aborted, and the run is resumed
Resume ==
  \/ FetchFails
  \/ FetchOk
  \/ BodyFails
  \/ NoSnapshot
  \/ SnapshotFound
  \/ HtmlBody
  \/ JinaBody

\* the pipeline under the assumption that every awaited network operation
\* eventually settles; the caller is not obliged to invoke scrapeUrl
FairSpec == Spec /\ WF_vars(Resume)

(***************************************************************************)
(* The string functions on their own: makeResult and the blank-line        *)
(* collapse of the normaliser, applied to every string of TextInputs.      *)
(***************************************************************************)
StringInit ==
  /\ PipelineInit
  /\ text \in TextInputs
  /\ StringsIdle
  /\ ConcIdle
  /\ RestIdle

ApplyMakeResult ==
  /\ "makeResult" \notin applied
  /\ made' = makeResult(text)
  /\ applied' = applied \cup {"makeResult"}
  /\ UNCHANGED << pipelineVars, heapVars, conc, restVars,
               text, collapsed, recollapsed >>

\* the long strings of TextInputs hold no newline and are left out
ApplyCollapse ==
  /\ "collapse" \notin applied
  /\ Len(text) <= MaxTextLen
  /\ collapsed' = Collapse(text)
  /\ applied' = applied \cup {"collapse"}
  /\ UNCHANGED << pipelineVars, heapVars, conc, restVars,
               text, made, recollapsed >>

\* the collapse is run again on its own output
CollapseAgain ==
  /\ "collapse" \in applied
  /\ "collapseAgain" \notin applied
  /\ recollapsed' = Collapse(collapsed)
  /\ applied' = applied \cup {"collapseAgain"}
  /\ UNCHANGED << pipelineVars, heapVars, conc, restVars,
               text, made, collapsed >>

StringNext ==
  \/ ApplyMakeResult
  \/ ApplyCollapse
  \/ CollapseAgain

StringSpec == StringInit /\ [][StringNext]_vars

(***************************************************************************)
(* Two invocations of scrapeUrl side by side.  JavaScript runs each        *)
(* stretch of code between two awaits to its end, so the steps that        *)
(* interleave are those stretches: the start of an invocation, and the     *)
(* stretch that ends an attempt.  Each invocation has its own binding of   *)
(* `layers`; the heap is the one heap of the page.  The stretch in which   *)
(* the conversion of an accepted candidate throws makes the calls of       *)
(* CAttemptSucceeds and then those of CAttemptFails on the same array; it  *)
(* is followed in Spec.                                                    *)
(***************************************************************************)
Runs == {"A", "B"}

ConcUrls == Urls \cup {"https://b.example"}

\* an invocation that was not made yet
NotRunning ==
  [pc |-> "idle", url |-> "none", before |-> "none", cur |-> 0,
   layers |-> NoRef, delivered |-> << >>, status |-> << >>, own |-> << >>]

ConcInit ==
  /\ PipelineInit
  /\ text = << >>
  /\ StringsIdle
  /\ conc = [ r \in Runs |-> NotRunning ]
  /\ RestIdle

\* scrapeUrl(u, cb) is called: up to the first await
CStart(r) ==
  /\ conc[r].pc = "idle"
  /\ \E u \in ConcUrls :
       IF u = "malformed"
         THEN /\ conc' = [conc EXCEPT ![r].pc = "uriError", ![r].url = u]
              /\ UNCHANGED mem
         ELSE LET created == allocLayers(mem, r)
                  stored == updateLayers(created.heap, r, created.ref,
                                         << << 0, "trying" >> >>)
                  trying == updateLayer(InitialLayers, 0, "trying")
              IN  /\ mem' = stored.heap
                  /\ conc' = [conc EXCEPT ![r] =
                       [pc |-> "awaiting", url |-> u, before |-> @.before,
                        cur |-> 1, layers |-> created.ref,
                        delivered |-> stored.delivered,
                        status |-> trying, own |-> << trying >>]]
  /\ UNCHANGED << pipelineVars, layersRef, delivered, stringVars, restVars >>

\* the attempt of the current layer fails: the tail of the layer block
CAttemptFails(r) ==
  /\ conc[r].pc = "awaiting"
  /\ LET k == conc[r].cur
         emitted == afterFailure(conc[r].status, k)
         stored == updateLayers(mem, r, conc[r].layers, failureUpdates(k))
     IN  /\ mem' = stored.heap
         /\ conc' = [conc EXCEPT
              ![r].pc = IF k < NumLayers THEN "awaiting" ELSE "exhausted",
              ![r].cur = IF k < NumLayers THEN k + 1 ELSE k,
              ![r].delivered = @ \o stored.delivered,
              ![r].status = emitted[Len(emitted)],
              ![r].own = @ \o emitted]
  /\ UNCHANGED << pipelineVars, layersRef, delivered, stringVars, restVars >>

\* the candidate of the current layer is accepted and the result returned
CAttemptSucceeds(r) ==
  /\ conc[r].pc = "awaiting"
  /\ LET k == conc[r].cur
         succeeded == updateLayer(conc[r].status, k - 1, "success")
         stored == updateLayers(mem, r, conc[r].layers,
                                << << k - 1, "success" >> >>)
     IN  /\ mem' = stored.heap
         /\ conc' = [conc EXCEPT
              ![r].pc = "returned",
              ![r].delivered = @ \o stored.delivered,
              ![r].status = succeeded,
              ![r].own = Append(@, succeeded)]
  /\ UNCHANGED << pipelineVars, layersRef, delivered, stringVars, restVars >>

\* the invocation is over; its caller is free to call scrapeUrl again
CReinvoke(r) ==
  /\ conc[r].pc \in {"returned", "exhausted", "uriError"}
  /\ conc' = [conc EXCEPT ![r] = [NotRunning EXCEPT !.before = conc[r].url]]
  /\ mem' = release(mem, r)
  /\ UNCHANGED << pipelineVars, layersRef, delivered, stringVars, restVars >>

ConcNext ==
  \E r \in Runs :
    \/ CStart(r)
    \/ CAttemptFails(r)
    \/ CAttemptSucceeds(r)
    \/ CReinvoke(r)

ConcSpec == ConcInit /\ [][ConcNext]_vars

(***************************************************************************)
(* The history store (HistoryDrawer.tsx, useHistory).  An entry is          *)
(* { url, title, timestamp }; the timestamp is Date.now() and takes no     *)
(* part in filter or slice, so entries are kept as url and title.          *)
(***************************************************************************)
MaxHistory == 5

\* the number of urls that are added to the history
MaxHistoryUrls == 6

HistoryUrls == { << "url", i >> : i \in 1..MaxHistoryUrls }

Titles == {"Title A", "a.example"}

\* JSON.stringify of the entries, and JSON.parse of what was stored
stringify(entries) == [kind |-> "json", value |-> entries]

parse(item) == item.value

\* JSON.parse(localStorage.getItem(STORAGE_KEY) || "[]")
getHistory(item) == IF item = NoItem THEN << >> ELSE parse(item)

\* updated.slice(0, 5)
slice(seq, n) == SubSeq(seq, 1, IF Len(seq) < n THEN Len(seq) ELSE n)

\* as addHistory, but without .filter((h) => h.url !== url)
addHistory_noFilter(item, u, title) ==
  stringify(slice(<< [url |-> u, title |-> title] >> \o getHistory(item),
                  MaxHistory))

\* the item that addHistory(url, title) stores
addHistory(item, u, title) ==
  LET existing == SelectSeq(getHistory(item), LAMBDA h : h.url # u)
  IN  stringify(slice(<< [url |-> u, title |-> title] >> \o existing,
                      MaxHistory))

AddHistory ==
  /\ \E u \in HistoryUrls, title \in Titles :
       /\ store' = addHistory(store, u, title)
       /\ lastAdded' = [url |-> u, title |-> title]
  /\ UNCHANGED << pipelineVars, heapVars, stringVars, conc, variant, ui >>

HistoryInit ==
  /\ PipelineInit
  /\ text = << >>
  /\ StringsIdle
  /\ ConcIdle
  /\ RestIdle

HistoryNext == AddHistory

HistorySpec == HistoryInit /\ [][HistoryNext]_vars

(***************************************************************************)
(* The 5-layer scrapeUrl (the earlier scrapeEngine.ts).  Layers 1-3 are    *)
(* HTML proxies, layer 4 is the reader, layer 5 is a direct no-cors fetch  *)
(* whose response is never read.  A candidate is accepted by its length    *)
(* alone.                                                                  *)
(***************************************************************************)
NumVariantLayers == 5

VariantLayerNames ==
  << "AllOrigins", "CorsProxy.io", "CodeTabs", "Jina Reader", "Direct Fetch" >>

DirectLayer == 5

VariantInitialLayers ==
  [ i \in 1..NumVariantLayers |->
      [layer |-> i, name |-> VariantLayerNames[i], status |-> "pending"] ]

\* what a layer reads from its response: raw length, whether turndown
\* converts it without throwing (layers 1-3), words of the markdown body
VariantPayloads ==
  { p \in [len : {0, MinLenProxy, MinLenProxy + 1}, convertible : BOOLEAN,
           words : {0, 1}] :
      p.len = 0 => (p.convertible /\ p.words = 0) }

\* as readsBody, but layer 5 reads its response like the layers before it
readsBody_everyLayer(k) == TRUE

\* layers 1-4 read the body of an ok response; layer 5 does `void res`
readsBody(k) == k # DirectLayer

\* the calls of onLayerUpdate made by the tail of layer block k
variantAfterFailure(ls, k) ==
  LET failed == updateLayer(ls, k - 1, "failed")
  IN  IF k < NumVariantLayers
        THEN << failed, updateLayer(failed, k, "trying") >>
        ELSE << failed >>

\* the run after the tail of the current layer block
VariantFail(v, kind) ==
  LET emitted == variantAfterFailure(v.layers, v.cur)
  IN  [v EXCEPT !.layers = emitted[Len(emitted)],
                !.calls = @ \o emitted,
                !.event = kind,
                !.cur = IF v.cur < NumVariantLayers THEN v.cur + 1 ELSE v.cur,
                !.pc = IF v.cur < NumVariantLayers THEN "fetch" ELSE "exhausted"]

VStart ==
  /\ variant.pc = "idle"
  /\ \E u \in Urls :
       variant' =
         IF u = "malformed"
           THEN [variant EXCEPT !.pc = "uriError", !.url = u, !.event = "URIError"]
           ELSE [variant EXCEPT
                   !.pc = "fetch", !.url = u, !.event = "start", !.cur = 1,
                   !.layers = updateLayer(VariantInitialLayers, 0, "trying"),
                   !.calls = << updateLayer(VariantInitialLayers, 0, "trying") >>]
  /\ UNCHANGED << pipelineVars, heapVars, stringVars, conc, shellVars >>

\* the awaited fetch rejects, is aborted, or (layers 1-4) has !res.ok
VFetchFails ==
  /\ variant.pc = "fetch"
  /\ \E kind \in FetchFailures :
       /\ kind = "badStatus" => readsBody(variant.cur)
       /\ variant' = VariantFail(variant, kind)
  /\ UNCHANGED << pipelineVars, heapVars, stringVars, conc, shellVars >>

\* the awaited fetch resolves: layers 1-4 go on to read the body when
\* res.ok; layer 5 drops its opaque response and falls to the tail
VFetchOk ==
  /\ variant.pc = "fetch"
  /\ variant' = IF readsBody(variant.cur)
                  THEN [variant EXCEPT !.pc = "body", !.event = "fetchOk"]
                  ELSE VariantFail(variant, "opaque")
  /\ UNCHANGED << pipelineVars, heapVars, stringVars, conc, shellVars >>

\* await res.json() / res.text() throws
VBodyFails ==
  /\ variant.pc = "body"
  /\ \E kind \in BodyFailures : variant' = VariantFail(variant, kind)
  /\ UNCHANGED << pipelineVars, heapVars, stringVars, conc, shellVars >>

\* the body was read: length test, updateLayer(k-1, "success"), conversion
VBody ==
  /\ variant.pc = "body"
  /\ \E p \in VariantPayloads :
       LET k == variant.cur
           succeeded == updateLayer(variant.layers, k - 1, "success")
           accepted == [variant EXCEPT !.layers = succeeded,
                                       !.calls = Append(@, succeeded)]
       IN  /\ k = JinaLayer => p.convertible
           /\ variant' =
                IF p.len > MinLenProxy
                  THEN IF p.convertible
                         THEN [accepted EXCEPT
                                 !.pc = "returned", !.event = "accepted",
                                 !.result =
                                   makeResult(IF k = JinaLayer
                                                THEN buildJinaMarkdown(p, variant.url, k)
                                                ELSE cleanHtmlToMarkdown(p, variant.url, k))]
                         ELSE VariantFail(accepted, "conversionError")
                  ELSE VariantFail(variant, IF p.len = 0 THEN "emptyBody" ELSE "rejected")
  /\ UNCHANGED << pipelineVars, heapVars, stringVars, conc, shellVars >>

VariantInit ==
  /\ PipelineInit
  /\ text = << >>
  /\ StringsIdle
  /\ ConcIdle
  /\ RestIdle

VariantNext ==
  \/ VStart
  \/ VFetchFails
  \/ VFetchOk
  \/ VBodyFails
  \/ VBody

VariantSpec == VariantInit /\ [][VariantNext]_vars

(***************************************************************************)
(* The page component Index: handleScrape, the controls that call it, and  *)
(* the scrapeUrl calls it awaits.  React state is taken as rendered after  *)
(* every stretch of code; a user acts on what is rendered.  scrapeUrl is   *)
(* taken by its interface here: calls of the callback, then a result, the  *)
(* exhaustion error, or the URIError of encodeURIComponent.                *)
(***************************************************************************)
\* the number of handleScrape calls that reach scrapeUrl
MaxScrapes == 3

LoneSurrogate == "\\uD800"

\* what a user types into the input
TypedUrls ==
  { NoUrl,
    [scheme |-> "", rest |-> "a.example"],
    [scheme |-> "", rest |-> "a b"],
    [scheme |-> "", rest |-> LoneSurrogate] }

\* EXAMPLE_URLS
ExampleUrls == { [scheme |-> "https://", rest |-> "news.ycombinator.com"] }

\* /^https?:\/\//i.test(u)
hasScheme(u) == u.scheme # ""

\* "https://" + u
withScheme(u) == [u EXCEPT !.scheme = "https://"]

\* encodeURIComponent(u) returns
encodable(u) == u.rest # LoneSurrogate

\* new URL(u) returns: the host of u is a valid host
validUrl(u) == hasScheme(u) /\ u.rest \in {"a.example", "news.ycombinator.com"}

\* new URL(u).hostname
hostname(u) == u.rest

\* the markdown of the results of scrapeUrl: the header, then a body with
\* no heading, with a level-1 heading, or with a level-2 heading only
MarkdownBodies ==
  { << "w" >>,
    << "#", " ", "Title", " ", "A", "\n", "\n", "w" >>,
    << "##", " ", "Sub", "\n", "\n", "w" >> }

ScrapeResults ==
  { makeResult(Header("https://a.example", 1) \o body) : body \in MarkdownBodies }

\* the message of the catch block, with its dash written as "--"
FailureMessage ==
  "All 8 scraping layers failed -- including Google Cache, Wayback Machine, Jina AI, and 12ft.io bypass. The site enforces strict bot protection."

\* position i starts a line (^ with the m flag)
LineStart(md, i) == i = 1 \/ md[i - 1] = "\n"

\* the last position of the line that holds position i ($ with the m flag)
LineEnd(md, i) ==
  CHOOSE e \in i..Len(md) :
    /\ \A k \in i..e : md[k] # "\n"
    /\ e = Len(md) \/ md[e + 1] = "\n"

\* for a "#" at i: the positions where \s+ can end with (.+) able to start
Gaps(md, i) ==
  { j \in (i + 1)..(Len(md) - 1) :
      /\ \A k \in (i + 1)..j : md[k] \in Whitespace
      /\ md[j + 1] # "\n" }

\* markdown.match(/^#\s+(.+)$/m): the capture of the leftmost match, with
\* \s+ and .+ greedy; << >> for null
titleMatch(md) ==
  LET starts == { i \in 1..Len(md) :
                    LineStart(md, i) /\ md[i] = "#" /\ Gaps(md, i) # {} }
  IN  IF starts = {}
        THEN << >>
        ELSE LET i == CHOOSE a \in starts : \A b \in starts : a <= b
                 j == CHOOSE a \in Gaps(md, i) : \A b \in Gaps(md, i) : b <= a
             IN  SubSeq(md, j + 1, LineEnd(md, j + 1))

\* handleScrape(targetUrl) up to its await; target = NoUrl for no argument.
\* A url that encodeURIComponent throws on makes scrapeUrl reject at once,
\* and the catch of handleScrape runs before anything is rendered.
handleScrape(u, target) ==
  LET chosen == IF target # NoUrl THEN target ELSE u.url
      full == IF hasScheme(chosen) THEN chosen ELSE withScheme(chosen)
      typed == IF ~hasScheme(chosen) /\ target = NoUrl
                 THEN [u EXCEPT !.url = full] ELSE u
      loading == [typed EXCEPT !.appState = "loading", !.layersOf = 0,
                               !.markdown = << >>, !.markdownOf = 0,
                               !.errorMsg = ""]
      r == Len(u.runs) + 1
  IN  IF chosen = NoUrl
        THEN u
        ELSE IF encodable(full)
               THEN [loading EXCEPT
                       !.runs = Append(@, [url |-> full, state |-> "inflight"]),
                       !.layersOf = r]
               ELSE [loading EXCEPT
                       !.runs = Append(@, [url |-> full, state |-> "done"]),
                       !.appState = "error",
                       !.errorMsg = FailureMessage,
                       !.finished = [kind |-> "uriError", run |-> r,
                                     added |-> FALSE]]

\* the frame of every step of the page
ShellFrame == UNCHANGED << pipelineVars, heapVars, stringVars, conc, variant >>

\* a control calls handleScrape
Scrape(u, target) ==
  /\ Len(ui.runs) < MaxScrapes
  /\ ui' = handleScrape([u EXCEPT !.finished = NotFinished], target)
  /\ UNCHANGED historyVars
  /\ ShellFrame

\* onChange of the input, which is disabled while loading
Type ==
  /\ ui.appState # "loading"
  /\ \E u \in TypedUrls :
       /\ u # ui.url
       /\ ui' = [ui EXCEPT !.url = u, !.finished = NotFinished]
  /\ UNCHANGED historyVars
  /\ ShellFrame

\* the Unravel button: disabled={!url || appState === "loading"}
ClickUnravel ==
  /\ ui.url # NoUrl
  /\ ui.appState # "loading"
  /\ Scrape(ui, NoUrl)

\* Enter in the input, which is disabled while loading
PressEnter ==
  /\ ui.appState # "loading"
  /\ Scrape(ui, NoUrl)

\* an example pill, rendered when appState === "idle"
ClickExample ==
  /\ ui.appState = "idle"
  /\ \E ex \in ExampleUrls : Scrape([ui EXCEPT !.url = ex], ex)

\* an entry of the history drawer, which the header always renders
HistorySelect ==
  \E i \in 1..Len(getHistory(store)) :
    LET histUrl == getHistory(store)[i].url
    IN  Scrape([ui EXCEPT !.url = histUrl], histUrl)

\* the Try Again button of the error card
TryAgain ==
  /\ ui.appState = "error"
  /\ ui' = [ui EXCEPT !.appState = "idle", !.finished = NotFinished]
  /\ UNCHANGED historyVars
  /\ ShellFrame

\* a scrapeUrl call in flight calls onLayerUpdate, which is setLayers
Progress ==
  /\ \E r \in 1..Len(ui.runs) :
       /\ ui.runs[r].state = "inflight"
       /\ ui' = [ui EXCEPT !.layersOf = r, !.finished = NotFinished]
  /\ UNCHANGED historyVars
  /\ ShellFrame

\* a scrapeUrl call returns a result: the rest of the try block of
\* handleScrape, and its catch when new URL throws
Resolve ==
  /\ \E r \in 1..Len(ui.runs), res \in ScrapeResults :
       LET u == ui.runs[r].url
           shown == [ui EXCEPT !.runs[r].state = "done",
                               !.layersOf = r,
                               !.markdown = res.markdown,
                               !.markdownOf = r,
                               !.wordCount = res.wordCount,
                               !.readTime = res.readTime,
                               !.appState = "success"]
           titleMatched == titleMatch(res.markdown)
           done == [kind |-> "result", run |-> r, result |-> res]
       IN  /\ ui.runs[r].state = "inflight"
           /\ IF titleMatched # << >> \/ validUrl(u)
                THEN LET title == IF titleMatched # << >> THEN titleMatched
                                  ELSE << hostname(u) >>
                     IN  /\ store' = addHistory(store, u, title)
                         /\ lastAdded' = [url |-> u, title |-> title]
                         /\ ui' = [shown EXCEPT
                                     !.finished = done @@ [added |-> TRUE]]
                ELSE /\ ui' = [shown EXCEPT
                                 !.appState = "error",
                                 !.errorMsg = FailureMessage,
                                 !.finished = done @@ [added |-> FALSE]]
                     /\ UNCHANGED historyVars
  /\ ShellFrame

\* a scrapeUrl call throws "All layers failed": the catch of handleScrape
Reject ==
  /\ \E r \in 1..Len(ui.runs) :
       /\ ui.runs[r].state = "inflight"
       /\ ui' = [ui EXCEPT !.runs[r].state = "done",
                           !.layersOf = r,
                           !.appState = "error",
                           !.errorMsg = FailureMessage,
                           !.finished = [kind |-> "exhausted", run |-> r,
                                         added |-> FALSE]]
  /\ UNCHANGED historyVars
  /\ ShellFrame

UiInit ==
  /\ PipelineInit
  /\ text = << >>
  /\ StringsIdle
  /\ ConcIdle
  /\ RestIdle

UiNext ==
  \/ Type
  \/ ClickUnravel
  \/ PressEnter
  \/ ClickExample
  \/ HistorySelect
  \/ TryAgain
  \/ Progress
  \/ Resolve
  \/ Reject

UiSpec == UiInit /\ [][UiNext]_vars

(***************************************************************************)
(* Properties.                                                             *)
(***************************************************************************)
Finished == pc \in {"returned", "exhausted"}

StatusOf(seq, i) == seq[i].status

SuccessEntries(seq) == { i \in DOMAIN seq : StatusOf(seq, i) = "success" }

\* the entries in which two snapshots differ
ChangedEntries(a, b) == { i \in 1..NumLayers : a[i] # b[i] }

\* C1: when a run that reached the strategies is over, its LayerStatus
\* sequence has at most one success entry; the entries before it are
\* failed and those after it pending; with no success entry all eight
\* entries are failed.  (A run that throws URIError never creates the
\* sequence.)
C1_FinalShape ==
  Finished =>
    /\ Len(layers) = NumLayers
    /\ Cardinality(SuccessEntries(layers)) <= 1
    /\ \A k \in SuccessEntries(layers) :
         /\ \A j \in 1..(k - 1) : StatusOf(layers, j) = "failed"
         /\ \A j \in (k + 1)..NumLayers : StatusOf(layers, j) = "pending"
    /\ SuccessEntries(layers) = {} =>
         \A j \in 1..NumLayers : StatusOf(layers, j) = "failed"

C1_Witness ==
  /\ pc = "returned"
  /\ SuccessEntries(layers) = {5}
  /\ StatusOf(layers, 4) = "failed"
  /\ StatusOf(layers, 6) = "pending"

\* C2 (as claimed): once strategy k is the first whose candidate the
\* validators accept, no later strategy leaves pending, the success
\* snapshot of k is the last call of the callback and the run has returned.
C2_StopsAtFirstAccepted ==
  firstAccepted # 0 =>
    /\ \A j \in (firstAccepted + 1)..NumLayers : StatusOf(layers, j) = "pending"
    /\ StatusOf(calls[Len(calls)], firstAccepted) = "success"
    /\ pc = "returned"

\* C3 (as claimed): the returned ScrapeResult's layersTriedCount is the
\* index of the strategy that succeeded.
C3_StrategyIndexInResult ==
  pc = "returned" => result.layersTriedCount = cur

\* the value that follows `label` and a space in a markdown string
HeaderValue(md, label) ==
  md[(CHOOSE i \in 1..Len(md) : md[i] = label) + 2]

C5_Exhaustion ==
  /\ pc = "exhausted" =>
       /\ result = NoResult
       /\ Len(calls) > 0
       /\ \A j \in 1..NumLayers : StatusOf(calls[Len(calls)], j) = "failed"
       /\ layers = calls[Len(calls)]
  /\ (Len(layers) = NumLayers
        /\ \A j \in 1..NumLayers : StatusOf(layers, j) = "failed")
       => pc = "exhausted"

C5_Witness ==
  /\ pc = "exhausted"
  /\ event = "rejected"
  /\ firstAccepted = 0

\* C6 (as claimed): a run that is over has returned exactly when its final
\* snapshot holds a success entry and has raised exactly when all eight
\* entries are failed, the exhaustion error being the only error raised.
C6_TwoOutcomes ==
  pc \in {"returned", "exhausted", "uriError"} =>
    /\ pc # "uriError"
    /\ Len(layers) = NumLayers
    /\ pc = "returned" <=> SuccessEntries(layers) # {}
    /\ pc = "exhausted" <=>
         \A j \in 1..NumLayers : StatusOf(layers, j) = "failed"

\* C7 (as claimed): every call of the callback carries all eight entries in
\* index order and differs from the previous call in exactly one entry; a
\* run that succeeds at strategy k makes exactly 2k calls and an exhausted
\* run exactly 16.
C7_OneCallPerTransition ==
  /\ \A n \in 1..Len(calls) :
       /\ Len(calls[n]) = NumLayers
       /\ \A i \in 1..NumLayers : calls[n][i].layer = i
  /\ \A n \in 2..Len(calls) :
       Cardinality(ChangedEntries(calls[n - 1], calls[n])) = 1
  /\ pc = "returned" => Len(calls) = 2 * cur
  /\ pc = "exhausted" => Len(calls) = 2 * NumLayers

\* C8 (as claimed): from one snapshot to the next an entry keeps its status
\* or moves pending -> trying, trying -> success or trying -> failed.
C8_StatusMoves ==
  \A n \in 2..Len(calls) : \A i \in 1..NumLayers :
    LET before == StatusOf(calls[n - 1], i)
        after == StatusOf(calls[n], i)
    IN  \/ after = before
        \/ before = "pending" /\ after = "trying"
        \/ before = "trying" /\ after \in {"success", "failed"}

\* the calls in which entry i is newly shown as trying
TryingMarks(i) ==
  { n \in 1..Len(calls) :
      /\ StatusOf(calls[n], i) = "trying"
      /\ n > 1 => StatusOf(calls[n - 1], i) # "trying" }

\* C9: strategies run one at a time in declaration order, each at most
\* once: no snapshot shows two entries trying, entry i+1 has left pending
\* only if entry i is failed, each entry is marked trying at most once, and
\* while a network operation is awaited exactly the entry of the current
\* strategy is trying.
C9_Sequential ==
  /\ \A n \in 1..Len(calls) :
       /\ Cardinality({ i \in 1..NumLayers : StatusOf(calls[n], i) = "trying" }) <= 1
       /\ \A i \in 1..(NumLayers - 1) :
            StatusOf(calls[n], i + 1) # "pending" => StatusOf(calls[n], i) = "failed"
  /\ \A i \in 1..NumLayers : Cardinality(TryingMarks(i)) <= 1
  /\ pc \in {"fetch", "body"} =>
       { i \in 1..NumLayers : StatusOf(layers, i) = "trying" } = {cur}

C9_Witness ==
  /\ pc = "fetch"
  /\ cur = 7
  /\ TryingMarks(7) = {Len(calls)}
  /\ \A j \in 1..6 : Cardinality(TryingMarks(j)) = 1

\* the ways an attempt fails that the pipeline recovers from
AttemptFailures ==
  FetchFailures \cup BodyFailures \cup SnapshotFailures \cup {"emptyBody", "rejected"}

\* C10: whatever the kind of failure of the attempt of strategy i (network
\* error, timeout, bad status, unparsable or empty body, validator
\* rejection), entry i is marked failed and strategy i+1 is tried next if
\* there is one; otherwise the run ends with the exhaustion error.
C10_UniformFailure ==
  [][ (pc \in {"fetch", "body"} /\ event' \in AttemptFailures) =>
        /\ StatusOf(layers', cur) = "failed"
        /\ cur < NumLayers =>
             /\ cur' = cur + 1
             /\ pc' = "fetch"
             /\ StatusOf(layers', cur + 1) = "trying"
        /\ cur = NumLayers => pc' = "exhausted" ]_vars

C10_Witness ==
  /\ event = "timeout"
  /\ pc = "fetch"
  /\ cur = 2
  /\ StatusOf(layers, 1) = "failed"
  /\ StatusOf(layers, 2) = "trying"

\* the calls of the callback that show some entry newly trying: the
\* strategy attempts of the run
Attempts == { n \in 1..Len(calls) : \E i \in 1..NumLayers : n \in TryingMarks(i) }

\* C11 (as claimed): every run that was started eventually returns a
\* ScrapeResult or raises the exhaustion error, after at most eight
\* strategy attempts.
C11_Terminates ==
  /\ [](Cardinality(Attempts) <= NumLayers)
  /\ (pc # "idle") ~> (pc \in {"returned", "exhausted"})

\* every run that reached its first strategy ends, by a result or by the
\* exhaustion error, after at most eight attempts
AttemptsTerminate ==
  /\ [](Cardinality(Attempts) <= NumLayers)
  /\ (pc \in {"fetch", "body"}) ~> (pc \in {"returned", "exhausted"})

\* the minimum lengths the claim names
ClaimedMinLength(k) == IF k \in {1, 2, 3} THEN 200 ELSE 300

\* the calls of the callback that show entry k as success
SuccessCalls(k) == { n \in 1..Len(calls) : StatusOf(calls[n], k) = "success" }

\* C12: an HTML layer rejects a body whose raw length is exactly its
\* minimum length (200 for layers 1-3, 300 for layers 5-8) and marks the
\* strategy failed; a body one character longer that is no SPA shell is
\* accepted and the strategy is marked success (the run then returns,
\* provided the conversion of the body does not throw).
C12_LengthBoundary ==
  payload.kind = "html" =>
    LET p == payload.body
        k == payload.layer
    IN  /\ p.len = ClaimedMinLength(k) =>
             /\ event = "rejected"
             /\ StatusOf(layers, k) = "failed"
             /\ SuccessCalls(k) = {}
        /\ (p.len = ClaimedMinLength(k) + 1 /\ ~isSpaShell(p)) =>
             /\ SuccessCalls(k) # {}
             /\ p.convertible =>
                  (pc = "returned" /\ StatusOf(layers, k) = "success")

C12_Witness ==
  /\ payload.kind = "html"
  /\ payload.layer = 5
  /\ payload.body.len = 301
  /\ pc = "returned"
  /\ StatusOf(layers, 5) = "success"

\* C13 (as claimed): layer 4 rejects a text of exactly 100 characters, and
\* accepts a text of 101 characters that holds no failure marker and keeps
\* at least 100 characters after its header is stripped.
C13_JinaBoundary ==
  payload.kind = "text" =>
    LET t == payload.body
    IN  /\ t.len = 100 =>
             (StatusOf(layers, JinaLayer) = "failed" /\ SuccessCalls(JinaLayer) = {})
        /\ (t.len = 101 /\ toLowerCase(t.phrase) \notin FailureMarkers
              /\ t.stripped >= 100) =>
             (pc = "returned" /\ StatusOf(layers, JinaLayer) = "success")

\* the failure markers in the letter cases they are met in
MarkersAsWritten ==
  { "Warning: Target URL returned error", "captcha", "CAPTCHA",
    "403: Forbidden", "Access Denied" }

\* C14: when the text returned to layer 4 holds a failure marker, in any
\* letter case and whatever its length, the candidate is rejected: entry 4
\* is marked failed, was never shown as success, and strategy 5 is tried.
C14_MarkerRejected ==
  (payload.kind = "text" /\ payload.body.phrase \in MarkersAsWritten) =>
    /\ event = "rejected"
    /\ StatusOf(layers, JinaLayer) = "failed"
    /\ SuccessCalls(JinaLayer) = {}
    /\ cur = JinaLayer + 1
    /\ pc = "fetch"
    /\ StatusOf(layers, JinaLayer + 1) = "trying"

C14_Witness ==
  /\ payload.kind = "text"
  /\ payload.body.phrase = "403: Forbidden"
  /\ payload.body.len = 101
  /\ payload.body.stripped = 100
  /\ StatusOf(layers, 4) = "failed"
  /\ StatusOf(layers, 5) = "trying"

\* C15: readTime is the ceiling of wordCount / 200: the least number of
\* whole 200-word minutes that cover wordCount; it is at least 1 when
\* wordCount > 0 and 0 when wordCount = 0.
C15_ReadTime ==
  "makeResult" \in applied =>
    /\ made.readTime * 200 >= made.wordCount
    /\ (made.readTime - 1) * 200 < made.wordCount
    /\ made.wordCount > 0 => made.readTime >= 1
    /\ made.wordCount = 0 => made.readTime = 0

C15_Witness ==
  /\ "makeResult" \in applied
  /\ made.wordCount = 201
  /\ made.readTime = 2

\* the positions of text where a run of non-whitespace characters begins
TokenStarts(s) ==
  { i \in 1..Len(s) :
      /\ s[i] \notin Whitespace
      /\ i > 1 => s[i - 1] \in Whitespace }

\* C16: wordCount is the number of maximal runs of non-whitespace
\* characters of the markdown handed to makeResult, header included, and
\* the result carries that markdown unchanged.
C16_WordCount ==
  "makeResult" \in applied =>
    /\ made.wordCount = Cardinality(TokenStarts(text))
    /\ made.markdown = text

C16_Witness ==
  /\ "makeResult" \in applied
  /\ Len(text) > 0
  /\ text[1] = "---"
  /\ text[Len(text)] = "w"
  /\ made.wordCount = 10

\* three newlines in a row somewhere in s
HasThreeNewlines(s) ==
  \E i \in 1..(Len(s) - 2) : s[i] = "\n" /\ s[i + 1] = "\n" /\ s[i + 2] = "\n"

\* C19: the blank-line collapse applied to its own output returns that
\* output, and its output never holds three newlines in a row.
C19_CollapseIdempotent ==
  /\ "collapse" \in applied => ~HasThreeNewlines(collapsed)
  /\ "collapseAgain" \in applied => recollapsed = collapsed

C19_Witness ==
  /\ "collapseAgain" \in applied
  /\ text = << "\n", "\n", "\n", "\n", "a" >>
  /\ collapsed = << "\n", "\n", "a" >>
  /\ recollapsed = collapsed

\* C20: strategy 6 is a two-hop attempt. The proxy fetch (second hop) is
\* made only after the availability answer named a snapshot url; a first
\* hop that fails, has a bad status or yields no snapshot url, and a second
\* hop that fails or whose content is rejected, each mark entry 6 failed
\* and start strategy 7; no step of strategy 6 leaves the run other than
\* inside strategy 6, returned, or trying strategy 7.
C20_WaybackTwoHop ==
  [][ (cur = WaybackLayer /\ pc \in {"fetch", "body"}) =>
        /\ hop' = 2 =>
             \/ hop = 2 /\ cur' = WaybackLayer
             \/ hop = 1 /\ pc = "body" /\ event' = "snapshotFound"
        /\ (hop = 1 /\ event' \notin {"fetchOk", "snapshotFound"}) =>
             /\ cur' = WaybackLayer + 1
             /\ hop' = 1
             /\ SuccessCalls(WaybackLayer)' = {}
        /\ \/ /\ cur' = WaybackLayer
              /\ pc' \in {"fetch", "body"}
              /\ layers' = layers
              /\ calls' = calls
           \/ /\ cur' = WaybackLayer
              /\ hop = 2
              /\ pc' = "returned"
              /\ event' = "accepted"
              /\ StatusOf(layers', WaybackLayer) = "success"
           \/ /\ cur' = WaybackLayer + 1
              /\ pc' = "fetch"
              /\ StatusOf(layers', WaybackLayer) = "failed"
              /\ StatusOf(layers', WaybackLayer + 1) = "trying" ]_vars

C20_Witness ==
  /\ cur = WaybackLayer + 1
  /\ pc = "fetch"
  /\ event = "noSnapshot"
  /\ SuccessCalls(WaybackLayer) = {}
  /\ StatusOf(layers, WaybackLayer) = "failed"
  /\ StatusOf(layers, WaybackLayer + 1) = "trying"

\* C18: every call of the callback is handed an array of its own, which
\* is not the array `layers` either, and what a consumer reads in an array
\* it was handed earlier stays what it was when the array was handed over:
\* no later transition of the run changes it.
C18_SnapshotsImmutable ==
  /\ Len(delivered) = Len(calls)
  /\ \A n \in 1..Len(delivered) :
       /\ Deref(mem, delivered[n]) = calls[n]
       /\ delivered[n] # layersRef
       /\ \A m \in 1..Len(delivered) : delivered[m] = delivered[n] => m = n

C18_Witness ==
  /\ Len(delivered) >= 3
  /\ StatusOf(Deref(mem, delivered[1]), 1) = "trying"
  /\ StatusOf(Deref(mem, delivered[2]), 1) = "failed"
  /\ StatusOf(Deref(mem, layersRef), 1) = "failed"
  /\ StatusOf(Deref(mem, layersRef), 2) = "trying"
  /\ Deref(mem, layersRef) = layers

\* the addresses that an invocation reaches: its array `layers`, the
\* arrays it handed to its callback, and the objects they hold
ArraysOf(r) ==
  { conc[r].layers } \cup { conc[r].delivered[n] : n \in 1..Len(conc[r].delivered) }

ObjectsOf(r) ==
  UNION { { mem.arr[a][i] : i \in 1..Len(mem.arr[a]) } : a \in ArraysOf(r) }

\* strategy 1 trying, the seven others pending
FreshStart ==
  [ i \in 1..NumLayers |->
      [layer |-> i, name |-> LayerNames[i],
       status |-> IF i = 1 THEN "trying" ELSE "pending"] ]

\* C17: two invocations of scrapeUrl whose steps interleave share no array
\* and no object; what each was handed by its callback shows its own
\* transitions only, whatever the other did since; and every invocation,
\* a repeated one for the same url included, starts with strategy 1 trying
\* and the seven other entries pending.
C17_RunsIndependent ==
  \A r \in Runs :
    conc[r].pc \in {"awaiting", "returned", "exhausted"} =>
      /\ Len(conc[r].delivered) = Len(conc[r].own)
      /\ \A n \in 1..Len(conc[r].delivered) :
           Deref(mem, conc[r].delivered[n]) = conc[r].own[n]
      /\ Deref(mem, conc[r].layers) = conc[r].status
      /\ Deref(mem, conc[r].delivered[1]) = FreshStart
      /\ \A q \in Runs \ {r} :
           conc[q].pc \in {"awaiting", "returned", "exhausted"} =>
             /\ ArraysOf(r) \cap ArraysOf(q) = {}
             /\ ObjectsOf(r) \cap ObjectsOf(q) = {}

C17_Witness ==
  /\ conc["A"].pc = "awaiting"
  /\ conc["A"].before = "https://a.example"
  /\ conc["A"].url = "https://a.example"
  /\ conc["A"].cur = 1
  /\ Deref(mem, conc["A"].delivered[1]) = FreshStart
  /\ conc["B"].pc = "awaiting"
  /\ conc["B"].url = "https://a.example"
  /\ conc["B"].cur = 3
  /\ StatusOf(Deref(mem, conc["B"].layers), 1) = "failed"

\* C21: an HTML candidate whose visible text is under 150 characters, or
\* whose markup matches an empty-root pattern, leaves its strategy failed
\* and never shown as success; an HTML strategy is shown as success only for
\* a candidate longer than the minimum length, with at least 150 characters
\* of visible text and no empty-root pattern.
C21_SpaShellRejected ==
  payload.kind = "html" =>
    LET p == payload.body
        k == payload.layer
    IN  /\ (p.visible < 150 \/ p.emptyRoot) =>
             /\ StatusOf(layers, k) = "failed"
             /\ SuccessCalls(k) = {}
        /\ SuccessCalls(k) # {} =>
             /\ p.len > ClaimedMinLength(k)
             /\ p.visible >= 150
             /\ ~p.emptyRoot

C21_Witness ==
  /\ payload.kind = "html"
  /\ payload.layer = 1
  /\ payload.body.len = 201
  /\ payload.body.visible = 150
  /\ payload.body.emptyRoot
  /\ StatusOf(layers, 1) = "failed"
  /\ StatusOf(layers, 2) = "trying"
  /\ event = "rejected"

\* failed* (trying | success)? pending*
SnapshotShape(seq) ==
  \E j \in 0..Len(seq) :
    /\ \A i \in 1..j : StatusOf(seq, i) = "failed"
    /\ \/ \A i \in (j + 1)..Len(seq) : StatusOf(seq, i) = "pending"
       \/ /\ j < Len(seq)
          /\ StatusOf(seq, j + 1) \in {"trying", "success"}
          /\ \A i \in (j + 2)..Len(seq) : StatusOf(seq, i) = "pending"

\* C24: every snapshot handed to the callback has the shape
\* failed* (trying | success)? pending*: at most one entry is trying or
\* success, all entries before it are failed and all after it pending.
C24_SnapshotShape ==
  \A n \in 1..Len(calls) :
    /\ Len(calls[n]) = NumLayers
    /\ SnapshotShape(calls[n])
    /\ Cardinality({ i \in 1..NumLayers :
                       StatusOf(calls[n], i) \in {"trying", "success"} }) <= 1

C24_Witness ==
  /\ event = "conversionError"
  /\ cur = 3
  /\ Len(calls) = 6
  /\ StatusOf(calls[4], 2) = "success"
  /\ StatusOf(calls[5], 2) = "failed"
  /\ StatusOf(calls[6], 3) = "trying"

\* the urls of a history, in its order
UrlsOf(entries) == [ i \in 1..Len(entries) |-> entries[i].url ]

\* the sequence without its elements equal to u
Without(seq, u) == SelectSeq(seq, LAMBDA x : x # u)

\* C26: the stored history never holds more than 5 entries nor the same
\* url twice; after addHistory(url, title) the url added is first, with
\* the title given, and the entries behind it are those the history held
\* before, the url added left out, in their order, cut to four.
C26_HistoryStore ==
  /\ [](LET urls == UrlsOf(getHistory(store))
        IN  /\ Len(urls) <= 5
            /\ \A i, j \in 1..Len(urls) : urls[i] = urls[j] => i = j)
  /\ [][ LET old == UrlsOf(getHistory(store))
             new == getHistory(store')
             kept == Without(old, lastAdded'.url)
         IN  /\ Len(new) >= 1
             /\ new[1] = lastAdded'
             /\ Tail(UrlsOf(new)) = SubSeq(kept, 1, Len(new) - 1)
             /\ Len(new) = IF Len(kept) >= 4 THEN 5 ELSE Len(kept) + 1 ]_historyVars

C26_Witness ==
  /\ Len(getHistory(store)) = 5
  /\ lastAdded.url = << "url", 3 >>
  /\ UrlsOf(getHistory(store)) =
       << << "url", 3 >>, << "url", 6 >>, << "url", 5 >>, << "url", 4 >>,
          << "url", 2 >> >>

\* C27: in the 5-layer pipeline no snapshot shows entry 5 as success and
\* a run returns only from layers 1-4; once entries 1-4 are all failed,
\* layer 5 is being tried, or entry 5 is failed and the run ended with the
\* exhaustion error.
C27_DirectFetchNeverSucceeds ==
  /\ \A n \in 1..Len(variant.calls) : StatusOf(variant.calls[n], 5) # "success"
  /\ variant.pc = "returned" =>
       /\ variant.cur \in 1..4
       /\ StatusOf(variant.layers, variant.cur) = "success"
       /\ variant.result # NoResult
  /\ (variant.layers # << >>
       /\ \A i \in 1..4 : StatusOf(variant.layers, i) = "failed") =>
       \/ /\ variant.pc = "fetch"
          /\ variant.cur = 5
          /\ StatusOf(variant.layers, 5) = "trying"
       \/ /\ variant.pc = "exhausted"
          /\ StatusOf(variant.layers, 5) = "failed"
  /\ variant.pc = "exhausted" =>
       \A i \in 1..5 : StatusOf(variant.layers, i) = "failed"

C27_Witness ==
  /\ variant.pc = "exhausted"
  /\ variant.event = "opaque"
  /\ Len(variant.calls) = 10
  /\ \A i \in 1..5 : StatusOf(variant.layers, i) = "failed"

\* C22 (as claimed): when a scrapeUrl call returned a result the page is
\* in appState success and shows that result's markdown, wordCount and
\* readTime; when it raised the exhaustion error the page is in appState
\* error with the fixed message; and the page turns to error at the end
\* of a scrapeUrl call only when that call raised the exhaustion error.
C22_OutcomeShown ==
  /\ ui.finished.kind = "result" =>
       /\ ui.appState = "success"
       /\ ui.markdown = ui.finished.result.markdown
       /\ ui.wordCount = ui.finished.result.wordCount
       /\ ui.readTime = ui.finished.result.readTime
  /\ ui.finished.kind = "exhausted" =>
       /\ ui.appState = "error"
       /\ ui.errorMsg = FailureMessage
  /\ (ui.finished.kind # "none" /\ ui.appState = "error") =>
       ui.finished.kind = "exhausted"

\* the text of the first line of md that is "# " followed by text, or
\* << >> when md has no such line
FirstHeading(md) ==
  LET heads == { i \in 1..(Len(md) - 2) :
                   /\ LineStart(md, i)
                   /\ md[i] = "#"
                   /\ md[i + 1] = " "
                   /\ md[i + 2] \notin Whitespace }
  IN  IF heads = {} THEN << >>
      ELSE LET i == CHOOSE a \in heads : \A b \in heads : a <= b
           IN  SubSeq(md, i + 2, LineEnd(md, i + 2))

\* C23 (as claimed): the step that ends a scrapeUrl call with a result
\* calls addHistory once, with the url of the run and, as title, the text
\* of the first level-1 heading of the markdown or else the host name of
\* the url; the step that ends a call with an error does not call it.
C23_HistoryAfterSuccess ==
  /\ ui.finished.kind = "result" =>
       LET u == ui.runs[ui.finished.run].url
           heading == FirstHeading(ui.finished.result.markdown)
       IN  /\ ui.finished.added
           /\ lastAdded.url = u
           /\ lastAdded.title = IF heading # << >> THEN heading ELSE << u.rest >>
           /\ getHistory(store)[1] = lastAdded
  /\ ui.finished.kind \in {"exhausted", "uriError"} => ~ui.finished.added

\* the scrapeUrl calls of the page that have not ended
InFlight == { r \in 1..Len(ui.runs) : ui.runs[r].state = "inflight" }

\* C25 (as claimed): at most one scrapeUrl call of the page is in flight,
\* and the layer log and the markdown on display come from the call that
\* was started last.
C25_OneRunInFlight ==
  /\ Cardinality(InFlight) <= 1
  /\ ui.layersOf \in {0, Len(ui.runs)}
  /\ ui.markdownOf \in {0, Len(ui.runs)}

====
